---- MODULE Spec2Model ----
(***************************************************************************)
(* MeesmanBot: a Discord bot that polls two Meesman fund pages, stores a   *)
(* price history in SQLite and notifies subscribed channels on a change.  *)
(*                                                                         *)
(*   src/src/scraper.ts   fetchFundData, FUNDS                             *)
(*   src/src/storage.ts   the price store (bun:sqlite)                     *)
(*   src/src/storage.js   the earlier single-fund store (sql.js), whose    *)
(*                        database file storage.ts opens and migrates     *)
(*   src/src/index.ts     poll cycle, slash-command handlers               *)
(*   src/unnamed/part_001 the store on sql.js with fund types, whose       *)
(*                        functions guard on `db`                         *)
(*                                                                         *)
(* Node runs one handler at a time: a handler runs without interruption    *)
(* from one await to the next, so every action below is the code between   *)
(* two suspension points.                                                  *)
(***************************************************************************)
EXTENDS Integers, Sequences, FiniteSets, Bags, TLC

VARIABLES
    schema,         \* which DDL created the tables of data/meesman.db
    subscriptions,  \* table subscriptions, a bag of rows (no query orders them)
    price_history,  \* table price_history, rows in id order
    task,           \* the running handlers (poll cycle, meesman-status)
    lastCall,       \* the latest direct call of a store function and its result
    cmp,            \* one evaluation of the price comparison on its own
    guild_settings, \* table guild_settings, a bag of rows
    sqljs,          \* the module state of storage.js (sql.js, single fund)
    db,             \* the module variable `db` of the store (see Lifecycle below)
    ret             \* the latest call of a query or guarded function and what it gave

vars == <<schema, subscriptions, price_history, task, lastCall, cmp,
          guild_settings, sqljs, db, ret>>

(***************************************************************************)
(* Values                                                                  *)
(***************************************************************************)

NULL == "null"

\* A FundData price of null (scraper.ts: `price: null`, no match in the page).
NoPrice == -1

\* No row: what getLatestPrice returns as null.
NoRow == [fund_type |-> NULL, price |-> NoPrice, price_date |-> NULL]

\* FUNDS, in the order checkForUpdates polls them.
FUNDS == <<"wereldwijd", "verantwoord">>

FundType == {FUNDS[i] : i \in 1..Len(FUNDS)}

\* The delivery targets of the model: two channels of one guild.
Channels == {<<"g1", "c1">>, <<"g1", "c2">>}

\* The guilds and the roles of the guild settings.
Guilds == {"g1", "g2"}
Roles == {"r1", "r2"}

\* Price dates as fetchFundData assembles them (YYYY-MM-DD), or NULL.
Dates == {"2026-01-09"}

\* A price is written as the page shows it: Decimal d stands for the text
\* "100,000dd", i.e. 100 + d / 10^5 (d = 20 is 100,0002).
TickPrices == {0, 20}
ComparePrices == {0, 5, 10, 15, 20, 25, 30, 35, 40, 45}

\* The largest `limit` getPriceHistory is called with in the model.
MaxLimit == 2

\* Rows with a NULL price_date are never replaced, so they pile up.  The
\* largest number of them the model lets direct calls of addPriceEntry
\* store, and the largest number it lets polls store.
MaxNullRows == 2
MaxPolledNullRows == 0

(***************************************************************************)
(* Sequences                                                               *)
(***************************************************************************)

Range(s) == {s[i] : i \in 1..Len(s)}

(***************************************************************************)
(* storage.ts: the tables                                                  *)
(*                                                                         *)
(* initDatabase issues CREATE TABLE IF NOT EXISTS and then ALTER TABLE     *)
(* ... ADD COLUMN fund_type.  On a new file the tables get                 *)
(*   UNIQUE(guild_id, channel_id, fund_type), UNIQUE(fund_type, price_date)*)
(* ("fresh").  On a file written by storage.js the tables exist already,   *)
(* CREATE TABLE IF NOT EXISTS does nothing, ADD COLUMN adds fund_type, and *)
(* the constraints stay those of storage.js:                               *)
(*   UNIQUE(guild_id, channel_id), price_date TEXT UNIQUE  ("migrated").   *)
(***************************************************************************)

Schemas == {"fresh", "migrated"}

\* The rows an INSERT of (g, c, f) into subscriptions conflicts with.
SubscriptionConflicts(rows, g, c, f) ==
    {r \in BagToSet(rows) :
        /\ r.guild_id = g
        /\ r.channel_id = c
        /\ (schema = "fresh" => r.fund_type = f)}

\* A UNIQUE constraint under which two NULL dates would be equal.
PriceConflictsNullEqual(rows, f, date) ==
    {i \in 1..Len(rows) :
        rows[i].price_date = date /\ (schema = "fresh" => rows[i].fund_type = f)}

\* The rows an INSERT of (f, date) into price_history conflicts with.  SQL
\* NULLs are distinct from each other in a UNIQUE constraint.
PriceConflicts(rows, f, date) ==
    {i \in 1..Len(rows) :
        /\ date # NULL
        /\ rows[i].price_date = date
        /\ (schema = "fresh" => rows[i].fund_type = f)}

RECURSIVE DeleteRows(_, _, _)
\* rows without the rows at the positions in `gone` (k: position of Head).
DeleteRows(rows, gone, k) ==
    IF rows = <<>> THEN <<>>
    ELSE IF k \in gone
         THEN DeleteRows(Tail(rows), gone, k + 1)
         ELSE <<Head(rows)>> \o DeleteRows(Tail(rows), gone, k + 1)

\* Every array that lists the rows of the bag `rows`, each as often as the
\* bag holds it.
Orders(rows) ==
    {a \in [1..BagCardinality(rows) -> BagToSet(rows)] :
        \A r \in BagToSet(rows) :
            Cardinality({i \in DOMAIN a : a[i] = r}) = CopiesIn(r, rows)}

\* The rows of the bag that belong to fund f, as a bag.
RowsOfFund(rows, f) ==
    LET keep == {r \in BagToSet(rows) : r.fund_type = f}
    IN [r \in keep |-> rows[r]]

\* A getSubscriptions without its WHERE clause.
getSubscriptionsOfAnyFund(rows, f) == Orders(rows)

\* getSubscriptions(fundType): SELECT ... WHERE fund_type = ?, without an
\* ORDER BY: the rows of the fund, in an order SQLite is free to choose.
\* The result is the set of arrays the call can return.
getSubscriptions(rows, f) == Orders(RowsOfFund(rows, f))

\* addSubscription: INSERT; a UNIQUE violation is caught and gives false.
\* The result is [table |-> the table afterwards, value |-> the boolean].
addSubscription(rows, g, c, f) ==
    IF SubscriptionConflicts(rows, g, c, f) = {}
    THEN [table |-> rows (+) SetToBag({[guild_id |-> g, channel_id |-> c, fund_type |-> f]}),
          value |-> TRUE]
    ELSE [table |-> rows, value |-> FALSE]

\* A DELETE that leaves the fund out of its WHERE clause.
removeSubscriptionOfChannel(rows, g, c, f) ==
    LET gone == {r \in BagToSet(rows) : r.guild_id = g /\ r.channel_id = c}
    IN [table |-> [r \in BagToSet(rows) \ gone |-> rows[r]],
        value |-> gone # {}]

\* removeSubscription: DELETE ... WHERE guild_id, channel_id, fund_type;
\* true when a row went (result.changes > 0).
removeSubscription(rows, g, c, f) ==
    LET gone == {r \in BagToSet(rows) :
                    /\ r.guild_id = g
                    /\ r.channel_id = c
                    /\ r.fund_type = f}
    IN [table |-> [r \in BagToSet(rows) \ gone |-> rows[r]], value |-> gone # {}]

\* getLatestPrice(fundType): ... WHERE fund_type = ? ORDER BY id DESC LIMIT 1
getLatestPrice(rows, f) ==
    LET OfFund(r) == r.fund_type = f
        mine == SelectSeq(rows, OfFund)
    IN IF mine = <<>> THEN NoRow ELSE mine[Len(mine)]

\* The sequence s from its last element to its first.
Reverse(s) == [i \in 1..Len(s) |-> s[Len(s) + 1 - i]]

\* SELECT ... ORDER BY id ASC in the place of DESC.
getPriceHistoryOldestFirst(rows, f, limit) ==
    LET OfFund(r) == r.fund_type = f
        mine == SelectSeq(rows, OfFund)
    IN SubSeq(mine, 1, IF limit < Len(mine) THEN limit ELSE Len(mine))

\* getPriceHistory(fundType, limit): WHERE fund_type = ? ORDER BY id DESC
\* LIMIT ?, for a limit >= 0.
getPriceHistory(rows, f, limit) ==
    LET OfFund(r) == r.fund_type = f
        mine == Reverse(SelectSeq(rows, OfFund))
    IN SubSeq(mine, 1, IF limit < Len(mine) THEN limit ELSE Len(mine))

RECURSIVE SumOfPrices(_)
\* The sum of the prices of the rows.
SumOfPrices(rows) ==
    IF rows = <<>> THEN 0 ELSE Head(rows).price + SumOfPrices(Tail(rows))

\* A getPriceStats that counts the rows of every fund.
getPriceStatsOfAllFunds(rows, f) ==
    IF rows = <<>>
    THEN [count |-> 0]
    ELSE [count |-> Len(rows),
          latest |-> rows[Len(rows)],
          oldest |-> [price |-> rows[1].price, price_date |-> rows[1].price_date],
          highest |-> CHOOSE p \in {rows[i].price : i \in 1..Len(rows)} :
                        \A i \in 1..Len(rows) : rows[i].price <= p,
          lowest |-> CHOOSE p \in {rows[i].price : i \in 1..Len(rows)} :
                        \A i \in 1..Len(rows) : rows[i].price >= p,
          average |-> <<SumOfPrices(rows), Len(rows)>>]

\* getPriceStats(fundType): COUNT(*); { count: 0 } for none; else MIN, MAX,
\* AVG, getLatestPrice and the row of the smallest id.  `average` is the
\* pair <<sum, count>> of the quotient AVG computes.
getPriceStats(rows, f) ==
    LET OfFund(r) == r.fund_type = f
        mine == SelectSeq(rows, OfFund)
        count == Len(mine)
        prices == {mine[i].price : i \in 1..count}
    IN IF count = 0
       THEN [count |-> 0]
       ELSE [count |-> count,
             latest |-> getLatestPrice(rows, f),
             oldest |-> [price |-> mine[1].price, price_date |-> mine[1].price_date],
             highest |-> CHOOSE p \in prices : \A q \in prices : q <= p,
             lowest |-> CHOOSE p \in prices : \A q \in prices : q >= p,
             average |-> <<SumOfPrices(mine), count>>]

\* A plain INSERT in the place of INSERT OR REPLACE: no row is deleted.
addPriceEntryAppendsOnly(rows, data) ==
    Append(rows, [fund_type |-> data.fundType, price |-> data.price,
                  price_date |-> data.priceDate])

\* addPriceEntry: INSERT OR REPLACE.  REPLACE deletes every row the new one
\* conflicts with and inserts the new row under a new (AUTOINCREMENT) id,
\* i.e. at the end of the id order.
addPriceEntry(rows, data) ==
    Append(DeleteRows(rows, PriceConflicts(rows, data.fundType, data.priceDate), 1),
           [fund_type |-> data.fundType, price |-> data.price,
            price_date |-> data.priceDate])

NullRows(rows) == {i \in 1..Len(rows) : rows[i].price_date = NULL}

(***************************************************************************)
(* index.ts: the price comparison                                          *)
(*                                                                         *)
(* fetchFundData turns the page text into a number with parseFloat, and    *)
(* checkForUpdatesForFund compares numbers: both are IEEE-754 binary64.    *)
(* The binary64 nearest to 100 + d/10^5 is 100 + u * 2^-46 with            *)
(*     u = round(d * 2^41 / 5^5) = d * 703687441 + round(d * 2427 / 3125)  *)
(* (2^41 = 3125 * 703687441 + 2427; no tie occurs for 0 < d < 3125).  The  *)
(* difference of two such numbers is a multiple of 2^-46 below 2^-11, so   *)
(* the subtraction is exact.  The literal 0.0001 is the binary64           *)
(* 7378697629483821 * 2^-66 = 7036874417.77 * 2^-46, so                    *)
(*     Math.abs(a - b) >= 0.0001  iff  |u_a - u_b| >= 10 * 703687441 + 8.  *)
(* A number is kept as the pair [units |-> d, frac |-> round(d*2427/3125)],*)
(* which stands for u = units * 703687441 + frac.                          *)
(***************************************************************************)

\* parseFloat(match.replace(',', '.')) of the text "100,000dd".
parseFloat(d) == [units |-> d, frac |-> (2 * d * 2427 + 3125) \div 6250]

\* Math.abs(a - b) >= 0.0001 on the binary64 values of a and b.
absDiffAtLeastThreshold(a, b) ==
    LET x == parseFloat(a)
        y == parseFloat(b)
        du == x.units - y.units
        df == x.frac - y.frac
        absUnits == IF du < 0 THEN -du ELSE du
        absFrac == IF du < 0 THEN -df ELSE df
    IN absUnits > 10 \/ (absUnits = 10 /\ absFrac >= 8)

\* const priceChanged = !previousData ||
\*   Math.abs(currentData.price - previousData.price) >= 0.0001;
priceChanged(price, previousData) ==
    previousData = NoRow \/ absDiffAtLeastThreshold(price, previousData.price)

(***************************************************************************)
(* scraper.ts: what a fetch can give                                       *)
(***************************************************************************)

\* fetchFundData(fundType) throws (transport error, status not ok), or
\* returns FundData whose price is null (no match in the page text), or
\* FundData with a price and a priceDate that may be null.
FetchOutcomes(f) ==
    {[kind |-> "throws", fundType |-> f, price |-> NoPrice, priceDate |-> NULL],
     [kind |-> "data", fundType |-> f, price |-> NoPrice, priceDate |-> NULL]}
    \cup {[kind |-> "data", fundType |-> f, price |-> p, priceDate |-> d] :
            p \in TickPrices, d \in Dates \cup {NULL}}

\* client.channels.fetch(id) followed by channel.send(...): the fetch throws,
\* the channel is missing or not text-based (nothing is sent, nothing is
\* thrown), the send throws, or the message is sent.
DeliveryOutcomes == {"sent", "fetchThrows", "notText", "sendThrows"}

(***************************************************************************)
(* index.ts: the handlers                                                  *)
(***************************************************************************)

\* The handlers that can be in flight, and what each runs.
Tasks == {"cron", "status"}

\* pc: where the handler is suspended; fund: the index in FUNDS of the fund
\* it polls; subs, idx: the array `subscriptions` of checkForUpdatesForFund
\* and the number of its elements the for-of loop has taken.
\* result and attempt are not program state: the ChangeResult of the task's
\* latest poll and the latest delivery attempt of its fan-out.
NoAttempt == [channelId |-> NULL, outcome |-> NULL]

IdleTask ==
    [pc |-> "idle", fund |-> 0, result |-> NULL, subs |-> <<>>, idx |-> 0,
     attempt |-> NoAttempt]

\* A cycle that a failed poll ends, the catch of checkForUpdatesForFund left out.
checkForUpdatesStopsOnFailure(t) ==
    IF t.fund < Len(FUNDS) /\ t.result # "FetchFailed"
    THEN [t EXCEPT !.pc = "fetch", !.fund = t.fund + 1, !.subs = <<>>, !.idx = 0]
    ELSE [t EXCEPT !.pc = "idle", !.fund = 0, !.subs = <<>>, !.idx = 0]

\* checkForUpdates: after checkForUpdatesForFund('wereldwijd') comes
\* checkForUpdatesForFund('verantwoord'), which runs up to its await of
\* fetchFundData; after that one the cycle is over.
\* `t` is the task record as the poll leaves it.
checkForUpdates(t) ==
    IF t.fund < Len(FUNDS)
    THEN [t EXCEPT !.pc = "fetch", !.fund = t.fund + 1, !.subs = <<>>, !.idx = 0]
    ELSE [t EXCEPT !.pc = "idle", !.fund = 0, !.subs = <<>>, !.idx = 0]

\* The fan-out of checkForUpdatesForFund up to its first await: with no
\* subscriber the loop is empty and the function returns.
startFanOut(t, rows) ==
    IF rows = <<>>
    THEN checkForUpdates([t EXCEPT !.result = "Changed"])
    ELSE [t EXCEPT !.pc = "notify", !.result = "Changed", !.subs = rows, !.idx = 0]

\* A poll that persists and notifies whatever its classification, the two
\* early returns of checkForUpdatesForFund left out.
checkForUpdatesForFundPersistsAlways(t, out, rows) ==
    LET cleared == [t EXCEPT !.attempt = NoAttempt]
    IN IF out.kind = "throws" \/ out.price = NoPrice
       THEN [history |-> addPriceEntry(price_history, out),
             task |-> IF rows = <<>>
                      THEN checkForUpdates([cleared EXCEPT !.result = "FetchFailed"])
                      ELSE [cleared EXCEPT !.pc = "notify", !.result = "FetchFailed",
                                           !.subs = rows, !.idx = 0]]
       ELSE IF priceChanged(out.price, getLatestPrice(price_history, FUNDS[t.fund]))
            THEN [history |-> addPriceEntry(price_history, out),
                  task |-> startFanOut(cleared, rows)]
            ELSE [history |-> addPriceEntry(price_history, out),
                  task |-> IF rows = <<>>
                           THEN checkForUpdates([cleared EXCEPT !.result = "Unchanged"])
                           ELSE [cleared EXCEPT !.pc = "notify", !.result = "Unchanged",
                                                !.subs = rows, !.idx = 0]]

\* checkForUpdatesForFund from the resolution of `await fetchFundData` to
\* the next await (the first delivery) or to its return.  `rows` is what
\* getSubscriptions(fundType) returns if it is called.  The result is
\* [history |-> price_history afterwards, task |-> the task afterwards].
checkForUpdatesForFund(t, out, rows) ==
    LET cleared == [t EXCEPT !.attempt = NoAttempt]
    IN IF out.kind = "throws" \/ out.price = NoPrice
       THEN [history |-> price_history,
             task |-> checkForUpdates([cleared EXCEPT !.result = "FetchFailed"])]
       ELSE LET previousData == getLatestPrice(price_history, FUNDS[t.fund])
            IN IF priceChanged(out.price, previousData)
               THEN [history |-> addPriceEntry(price_history, out),
                     task |-> startFanOut(cleared, rows)]
               ELSE [history |-> price_history,
                     task |-> checkForUpdates([cleared EXCEPT !.result = "Unchanged"])]

\* A loop that a throwing delivery leaves, the try/catch of its body left out.
notifyNextAbortsOnThrow(t, outcome) ==
    LET sub == t.subs[t.idx + 1]
        logged == [t EXCEPT !.idx = t.idx + 1,
                            !.attempt = [channelId |-> sub.channel_id, outcome |-> outcome]]
    IN IF t.idx + 1 = Len(t.subs) \/ outcome \in {"fetchThrows", "sendThrows"}
       THEN checkForUpdates(logged)
       ELSE logged

\* A loop that hands over to the next fund after its first turn.
notifyNextOfFirstOnly(t, outcome) ==
    LET sub == t.subs[t.idx + 1]
        logged == [t EXCEPT !.idx = t.idx + 1,
                            !.attempt = [channelId |-> sub.channel_id, outcome |-> outcome]]
    IN checkForUpdates(logged)

\* A loop that reads the subscriptions of the fund again in every turn.
notifyNextOfStoredNow(t, outcome) ==
    LET now == CHOOSE a \in getSubscriptions(subscriptions, FUNDS[t.fund]) : TRUE
        logged == [t EXCEPT !.idx = t.idx + 1, !.subs = now,
                            !.attempt = [channelId |-> now[t.idx + 1].channel_id,
                                         outcome |-> outcome]]
    IN IF t.idx + 1 > Len(now) THEN checkForUpdates(t)
       ELSE IF t.idx + 1 = Len(now) THEN checkForUpdates(logged) ELSE logged

\* One turn of `for (const sub of subscriptions)`: the attempt on the next
\* subscription, every throw caught inside the loop body.
notifyNext(t, outcome) ==
    LET sub == t.subs[t.idx + 1]
        logged == [t EXCEPT !.idx = t.idx + 1,
                            !.attempt = [channelId |-> sub.channel_id, outcome |-> outcome]]
    IN IF t.idx + 1 = Len(t.subs) THEN checkForUpdates(logged) ELSE logged

\* A loop body that drops the subscription whose delivery did not succeed.
subscriptionsAfterAttemptPruned(rows, sub, outcome) ==
    IF outcome = "sent" THEN rows
    ELSE removeSubscription(rows, sub.guild_id, sub.channel_id, sub.fund_type).table

\* The subscriptions table after one turn of the loop: the body calls
\* client.channels.fetch, channel.send and, in its catch, console.error, and
\* none of them writes to the store.
subscriptionsAfterAttempt(rows, sub, outcome) == rows

\* The meesman-status handler from the resolution of `await fetchFundData`
\* to its reply: getLatestPrice, the comparison, addPriceEntry.
statusHandler(t, out) ==
    LET f == FUNDS[t.fund]
        done == [IdleTask EXCEPT !.result = "FetchFailed"]
    IN IF out.kind = "throws" \/ out.price = NoPrice
       THEN [history |-> price_history, task |-> done]
       ELSE LET previousData == getLatestPrice(price_history, f)
            IN IF priceChanged(out.price, previousData)
               THEN [history |-> addPriceEntry(price_history, out),
                     task |-> [done EXCEPT !.result = "Changed"]]
               ELSE [history |-> price_history,
                     task |-> [done EXCEPT !.result = "Unchanged"]]

(***************************************************************************)
(* The bot: poll cycle, meesman-status, meesman-follow, meesman-unfollow   *)
(***************************************************************************)

\* lastCall: the function called, its key arguments, what it returned (TRUE
\* for a void function), the price passed, whether a row with the call's
\* key was stored before the call, and a bit that flips with every call.
NoCall ==
    [fn |-> NULL, key |-> <<NULL, NULL, NULL>>, value |-> FALSE, price |-> NoPrice,
     had |-> FALSE, tick |-> 0]

\* Whether a subscription row (g, c, f) is stored.
HasSubscription(g, c, f) ==
    BagIn([guild_id |-> g, channel_id |-> c, fund_type |-> f], subscriptions)

\* The positions of the price_history rows of fund f and date d.
RowsOfKey(rows, f, d) ==
    {i \in 1..Len(rows) : rows[i].fund_type = f /\ rows[i].price_date = d}
\* storage.js before any call: empty tables, sqlite3_changes() = 0, nothing
\* to save.  `call` is the latest call and what it returned.
NoSqljs ==
    [subscriptions |-> {}, price_history |-> <<>>, changes |-> 0, dirty |-> FALSE,
     file |-> [subscriptions |-> {}, price_history |-> <<>>],
     call |-> [fn |-> NULL, key |-> <<NULL, NULL>>, value |-> FALSE, had |-> FALSE]]

\* No call of a query yet.
NoRet ==
    [fn |-> NULL, args |-> <<>>, threw |-> FALSE, rows |-> <<>>, stats |-> [count |-> 0],
     role |-> NULL, tick |-> 0]

NoCompare == [pc |-> "off", price |-> NoPrice, previousData |-> NoRow, priceChanged |-> FALSE]

Init ==
    /\ schema \in Schemas
    /\ subscriptions = EmptyBag
    /\ price_history = <<>>
    /\ task = [t \in Tasks |-> IdleTask]
    /\ lastCall = NoCall
    /\ cmp = NoCompare
    /\ guild_settings = EmptyBag
    /\ sqljs = NoSqljs
    /\ db = "open"
    /\ ret = NoRet

\* The model lets a NULL-dated price come only while fewer than `most`
\* NULL-dated rows are stored.
WithinNullRows(out, most) ==
    (out.kind = "data" /\ out.price # NoPrice /\ out.priceDate = NULL)
        => Cardinality(NullRows(price_history)) < most

\* cron.schedule callback: checkForUpdates() runs up to its first await.
CronFires ==
    /\ task["cron"].pc = "idle"
    /\ task' = [task EXCEPT !["cron"] = [IdleTask EXCEPT !.pc = "fetch", !.fund = 1]]
    /\ UNCHANGED <<schema, subscriptions, price_history, lastCall, cmp, guild_settings, sqljs, db, ret>>

\* interactionCreate, meesman-status: up to `await fetchFundData(fundType)`.
StatusCommand(i) ==
    /\ task["status"].pc = "idle"
    /\ task' = [task EXCEPT !["status"] = [IdleTask EXCEPT !.pc = "fetch", !.fund = i]]
    /\ UNCHANGED <<schema, subscriptions, price_history, lastCall, cmp, guild_settings, sqljs, db, ret>>

\* `await fetchFundData` of the poll cycle resolves or rejects.
PollFetched(out, rows) ==
    /\ task["cron"].pc = "fetch"
    /\ out.fundType = FUNDS[task["cron"].fund]
    /\ WithinNullRows(out, MaxPolledNullRows)
    /\ LET r == checkForUpdatesForFund(task["cron"], out, rows)
       IN /\ price_history' = r.history
          /\ task' = [task EXCEPT !["cron"] = r.task]
    /\ UNCHANGED <<schema, subscriptions, lastCall, cmp, guild_settings, sqljs, db, ret>>

\* `await fetchFundData` of meesman-status resolves or rejects.
StatusFetched(out) ==
    /\ task["status"].pc = "fetch"
    /\ out.fundType = FUNDS[task["status"].fund]
    /\ WithinNullRows(out, MaxPolledNullRows)
    /\ LET r == statusHandler(task["status"], out)
       IN /\ price_history' = r.history
          /\ task' = [task EXCEPT !["status"] = r.task]
    /\ UNCHANGED <<schema, subscriptions, lastCall, cmp, guild_settings, sqljs, db, ret>>

\* The delivery to the next subscriber of the fan-out ends.
Deliver(outcome) ==
    /\ task["cron"].pc = "notify"
    /\ task' = [task EXCEPT !["cron"] = notifyNext(task["cron"], outcome)]
    /\ subscriptions' = subscriptionsAfterAttempt(subscriptions,
                             task["cron"].subs[task["cron"].idx + 1], outcome)
    /\ UNCHANGED <<schema, price_history, lastCall, cmp, guild_settings, sqljs, db, ret>>

\* interactionCreate, meesman-follow in a guild.
Follow(ch, f) ==
    /\ subscriptions' = addSubscription(subscriptions, ch[1], ch[2], f).table
    /\ subscriptions' # subscriptions
    /\ UNCHANGED <<schema, price_history, task, lastCall, cmp, guild_settings, sqljs, db, ret>>

\* interactionCreate, meesman-unfollow in a guild.
Unfollow(ch, f) ==
    /\ subscriptions' = removeSubscription(subscriptions, ch[1], ch[2], f).table
    /\ subscriptions' # subscriptions
    /\ UNCHANGED <<schema, price_history, task, lastCall, cmp, guild_settings, sqljs, db, ret>>

Next ==
    \/ CronFires
    \/ \E i \in 1..Len(FUNDS) : StatusCommand(i)
    \/ \E f \in FundType : \E out \in FetchOutcomes(f) :
            \E rows \in getSubscriptions(subscriptions, f) :
                PollFetched(out, rows)
    \/ \E f \in FundType : \E out \in FetchOutcomes(f) :
            StatusFetched(out)
    \/ \E outcome \in DeliveryOutcomes : Deliver(outcome)
    \/ \E ch \in Channels, f \in FundType : Follow(ch, f)
    \/ \E ch \in Channels, f \in FundType : Unfollow(ch, f)

Spec == Init /\ [][Next]_vars

(***************************************************************************)
(* The store on its own: any sequence of calls of the functions of a table *)
(***************************************************************************)

Flip(call) == 1 - call.tick

CallAddSubscription(ch, f) ==
    LET r == addSubscription(subscriptions, ch[1], ch[2], f)
    IN /\ subscriptions' = r.table
       /\ lastCall' = [fn |-> "addSubscription", key |-> <<ch[1], ch[2], f>>,
                       value |-> r.value, price |-> NoPrice,
                       had |-> HasSubscription(ch[1], ch[2], f), tick |-> Flip(lastCall)]
       /\ UNCHANGED <<schema, price_history, task, cmp, guild_settings, sqljs, db, ret>>

CallRemoveSubscription(ch, f) ==
    LET r == removeSubscription(subscriptions, ch[1], ch[2], f)
    IN /\ subscriptions' = r.table
       /\ lastCall' = [fn |-> "removeSubscription", key |-> <<ch[1], ch[2], f>>,
                       value |-> r.value, price |-> NoPrice,
                       had |-> HasSubscription(ch[1], ch[2], f), tick |-> Flip(lastCall)]
       /\ UNCHANGED <<schema, price_history, task, cmp, guild_settings, sqljs, db, ret>>

NextSubscriptions ==
    \/ \E ch \in Channels, f \in FundType : CallAddSubscription(ch, f)
    \/ \E ch \in Channels, f \in FundType : CallRemoveSubscription(ch, f)

SpecSubscriptions == Init /\ [][NextSubscriptions]_vars

\* The FundData addPriceEntry is called with: a price is never null there.
PriceData ==
    {[kind |-> "data", fundType |-> f, price |-> p, priceDate |-> d] :
        f \in FundType, p \in TickPrices, d \in Dates \cup {NULL}}

CallAddPriceEntry(data) ==
    /\ WithinNullRows(data, MaxNullRows)
    /\ price_history' = addPriceEntry(price_history, data)
    /\ lastCall' = [fn |-> "addPriceEntry", key |-> <<data.fundType, data.priceDate, NULL>>,
                    value |-> TRUE, price |-> data.price,
                    had |-> RowsOfKey(price_history, data.fundType, data.priceDate) # {},
                    tick |-> Flip(lastCall)]
    /\ UNCHANGED <<schema, subscriptions, task, cmp, guild_settings, sqljs, db, ret>>

NextPriceHistory == \E data \in PriceData : CallAddPriceEntry(data)

SpecPriceHistory == Init /\ [][NextPriceHistory]_vars

(***************************************************************************)
(* The queries of the price store, between any calls of addPriceEntry      *)
(***************************************************************************)

CallGetPriceHistory(f, limit) ==
    /\ ret' = [NoRet EXCEPT !.fn = "getPriceHistory", !.args = <<f, limit>>,
                            !.rows = getPriceHistory(price_history, f, limit),
                            !.tick = 1 - ret.tick]
    /\ UNCHANGED <<schema, subscriptions, price_history, task, lastCall, cmp,
                   guild_settings, sqljs, db>>

CallGetPriceStats(f) ==
    /\ ret' = [NoRet EXCEPT !.fn = "getPriceStats", !.args = <<f>>,
                            !.stats = getPriceStats(price_history, f),
                            !.tick = 1 - ret.tick]
    /\ UNCHANGED <<schema, subscriptions, price_history, task, lastCall, cmp,
                   guild_settings, sqljs, db>>

\* addPriceEntry called between the queries.
PersistBetweenQueries(data) ==
    /\ WithinNullRows(data, MaxNullRows)
    /\ price_history' = addPriceEntry(price_history, data)
    /\ UNCHANGED <<schema, subscriptions, task, lastCall, cmp,
                   guild_settings, sqljs, db, ret>>

NextQueries ==
    \/ \E data \in PriceData : PersistBetweenQueries(data)
    \/ \E f \in FundType, limit \in 0..MaxLimit : CallGetPriceHistory(f, limit)
    \/ \E f \in FundType : CallGetPriceStats(f)

SpecQueries == Init /\ [][NextQueries]_vars

(***************************************************************************)
(* storage.ts: guild_settings (guild_id TEXT PRIMARY KEY, ping_role_id)    *)
(***************************************************************************)

\* getPingRole(guildId): the ping_role_id of the row `.get` finds, or null
\* without a row.  The result is the set of values the call can return.
getPingRole(rows, g) ==
    LET mine == {r \in BagToSet(rows) : r.guild_id = g}
    IN IF mine = {} THEN {NULL} ELSE {r.ping_role_id : r \in mine}

\* A plain INSERT on a table without the PRIMARY KEY.
setPingRoleInsertsOnly(rows, g, roleId) ==
    IF roleId = NULL
    THEN [r \in {x \in BagToSet(rows) : x.guild_id # g} |-> rows[r]]
    ELSE rows (+) SetToBag({[guild_id |-> g, ping_role_id |-> roleId]})

\* setPingRole(guildId, roleId): DELETE for null, else INSERT OR REPLACE,
\* which deletes the row of the guild before it inserts.
setPingRole(rows, g, roleId) ==
    LET others == [r \in {x \in BagToSet(rows) : x.guild_id # g} |-> rows[r]]
    IN IF roleId = NULL
       THEN others
       ELSE others (+) SetToBag({[guild_id |-> g, ping_role_id |-> roleId]})

CallSetPingRole(g, roleId) ==
    /\ guild_settings' = setPingRole(guild_settings, g, roleId)
    /\ ret' = [NoRet EXCEPT !.fn = "setPingRole", !.args = <<g, roleId>>,
                            !.tick = 1 - ret.tick]
    /\ UNCHANGED <<schema, subscriptions, price_history, task, lastCall, cmp, sqljs, db>>

CallGetPingRole(g, roleId) ==
    /\ roleId \in getPingRole(guild_settings, g)
    /\ ret' = [NoRet EXCEPT !.fn = "getPingRole", !.args = <<g>>, !.role = roleId,
                            !.tick = 1 - ret.tick]
    /\ UNCHANGED <<schema, subscriptions, price_history, task, lastCall, cmp,
                   guild_settings, sqljs, db>>

NextGuildSettings ==
    \/ \E g \in Guilds, roleId \in Roles \cup {NULL} : CallSetPingRole(g, roleId)
    \/ \E g \in Guilds, roleId \in Roles \cup {NULL} : CallGetPingRole(g, roleId)

SpecGuildSettings == Init /\ [][NextGuildSettings]_vars

(***************************************************************************)
(* Lifecycle of the store.                                                 *)
(*                                                                         *)
(* storage.ts opens data/meesman.db when the module is loaded (`const db = *)
(* new Database(DB_PATH)`), initDatabase() runs the DDL and the migration  *)
(* on it and closeDatabase() closes it; no function tests the handle:      *)
(*     "loaded" -> "open" -> "closed"                                      *)
(* The sql.js store (part_001) starts with `db = null`, initDatabase()     *)
(* reads the file into memory, closeDatabase() sets db back to null, and   *)
(* every function starts with `if (!db) throw`:                            *)
(*     "null" -> "sqljs" -> "null"                                         *)
(* `schema` is what the database file holds: "none" for a new file,        *)
(* "legacy" for a file of storage.js that was not migrated yet.            *)
(***************************************************************************)

Files == {"none", "legacy", "fresh", "migrated"}

\* Whether the store is initialized: initDatabase has run, closeDatabase
\* has not.
Initialized == db \in {"open", "sqljs"}

\* Whether a statement on subscriptions or price_history throws: the guard
\* of part_001; a closed bun:sqlite handle; "no such table" on a new file;
\* "no such column: fund_type" on a legacy file.
Throws ==
    \/ db \in {"null", "closed"}
    \/ db = "loaded" /\ schema \in {"none", "legacy"}

\* initDatabase(): CREATE TABLE IF NOT EXISTS and the fund_type migration.
initDatabase ==
    /\ db \in {"loaded", "null"}
    /\ db' = IF db = "loaded" THEN "open" ELSE "sqljs"
    /\ schema' = CASE schema = "none" -> "fresh"
                   [] schema = "legacy" -> "migrated"
                   [] OTHER -> schema
    /\ UNCHANGED <<subscriptions, price_history, task, lastCall, cmp,
                   guild_settings, sqljs, ret>>

\* closeDatabase(): db.close(); the sql.js store saves and sets db = null.
closeDatabase ==
    /\ Initialized
    /\ db' = IF db = "open" THEN "closed" ELSE "null"
    /\ UNCHANGED <<schema, subscriptions, price_history, task, lastCall, cmp,
                   guild_settings, sqljs, ret>>

\* What a call that threw leaves in ret.
Thrown(fn, args) ==
    [NoRet EXCEPT !.fn = fn, !.args = args, !.threw = TRUE, !.tick = 1 - ret.tick]

InvokeGetSubscriptions(f, rows) ==
    /\ ret' = IF Throws THEN Thrown("getSubscriptions", <<f>>)
              ELSE [NoRet EXCEPT !.fn = "getSubscriptions", !.args = <<f>>,
                                 !.rows = rows, !.tick = 1 - ret.tick]
    /\ UNCHANGED <<schema, subscriptions, price_history, task, lastCall, cmp,
                   guild_settings, sqljs, db>>

InvokeAddSubscription(ch, f) ==
    /\ IF Throws
       THEN /\ ret' = Thrown("addSubscription", <<ch[1], ch[2], f>>)
            /\ UNCHANGED subscriptions
       ELSE /\ ret' = [NoRet EXCEPT !.fn = "addSubscription", !.args = <<ch[1], ch[2], f>>,
                                    !.tick = 1 - ret.tick]
            /\ subscriptions' = addSubscription(subscriptions, ch[1], ch[2], f).table
    /\ UNCHANGED <<schema, price_history, task, lastCall, cmp, guild_settings, sqljs, db>>

InvokeAddPriceEntry(data) ==
    /\ WithinNullRows(data, MaxPolledNullRows)
    /\ IF Throws
       THEN /\ ret' = Thrown("addPriceEntry", <<data.fundType, data.priceDate>>)
            /\ UNCHANGED price_history
       ELSE /\ ret' = [NoRet EXCEPT !.fn = "addPriceEntry",
                                    !.args = <<data.fundType, data.priceDate>>,
                                    !.tick = 1 - ret.tick]
            /\ price_history' = addPriceEntry(price_history, data)
    /\ UNCHANGED <<schema, subscriptions, task, lastCall, cmp, guild_settings, sqljs, db>>

\* The module is loaded, initDatabase() has not run yet; the file is new or
\* was left by an earlier run, with or without a subscription in it.
InitLifecycle ==
    /\ db \in {"loaded", "null"}
    /\ schema \in Files
    /\ subscriptions \in
            IF schema \in {"fresh", "migrated"}
            THEN {EmptyBag, SetToBag({[guild_id |-> "g1", channel_id |-> "c1",
                                       fund_type |-> FUNDS[1]]})}
            ELSE {EmptyBag}
    /\ price_history = <<>>
    /\ task = [t \in Tasks |-> IdleTask]
    /\ lastCall = NoCall
    /\ cmp = NoCompare
    /\ guild_settings = EmptyBag
    /\ sqljs = NoSqljs
    /\ ret = NoRet

NextLifecycle ==
    \/ initDatabase
    \/ closeDatabase
    \/ \E f \in FundType : \E rows \in getSubscriptions(subscriptions, f) :
            InvokeGetSubscriptions(f, rows)
    \/ \E ch \in Channels, f \in FundType : InvokeAddSubscription(ch, f)
    \/ \E data \in PriceData : InvokeAddPriceEntry(data)

SpecLifecycle == InitLifecycle /\ [][NextLifecycle]_vars

(***************************************************************************)
(* storage.js: the single-fund store on sql.js.  The database lives in     *)
(* memory and saveDatabase() writes it to data/meesman.db.                 *)
(* db.getRowsModified() is sqlite3_changes(): the number of rows the       *)
(* latest completed INSERT, UPDATE or DELETE changed (not a running total).*)
(***************************************************************************)

\* saveDatabase(): db.export() written to data/meesman.db.  `file` is what
\* the file holds.
saveDatabaseJs(st) ==
    [st EXCEPT !.file = [subscriptions |-> st.subscriptions,
                         price_history |-> st.price_history],
               !.dirty = FALSE]

\* addSubscription(guildId, channelId): INSERT; UNIQUE(guild_id, channel_id)
\* makes a second one fail, which is caught and gives false.  Whether the
\* failed INSERT resets sqlite3_changes() depends on the SQLite build:
\* `failedChanges` is the value it leaves.
addSubscriptionJs(st, g, c, failedChanges) ==
    IF <<g, c>> \notin st.subscriptions
    THEN saveDatabaseJs(
            [st EXCEPT !.subscriptions = @ \cup {<<g, c>>}, !.changes = 1,
                       !.call = [fn |-> "addSubscription", key |-> <<g, c>>,
                                 value |-> TRUE, had |-> FALSE]])
    ELSE [st EXCEPT !.changes = failedChanges,
                    !.call = [fn |-> "addSubscription", key |-> <<g, c>>,
                              value |-> FALSE, had |-> TRUE]]

\* removeSubscription(guildId, channelId): before = getRowsModified(); DELETE;
\* after = getRowsModified(); `after > before` decides on saveDatabase and
\* on the value returned.
removeSubscriptionJs(st, g, c) ==
    LET before == st.changes
        gone == st.subscriptions \cap {<<g, c>>}
        after == Cardinality(gone)
        deleted == [st EXCEPT !.subscriptions = @ \ gone,
                              !.changes = after,
                              !.dirty = @ \/ gone # {},
                              !.call = [fn |-> "removeSubscription", key |-> <<g, c>>,
                                        value |-> after > before, had |-> gone # {}]]
    IN IF after > before THEN saveDatabaseJs(deleted) ELSE deleted

\* The rows of storage.js's price_history the new row conflicts with
\* (price_date TEXT UNIQUE; NULLs are distinct).
PriceConflictsJs(rows, date) ==
    {i \in 1..Len(rows) : date # NULL /\ rows[i].price_date = date}

\* addPriceEntry(priceData): INSERT OR REPLACE, then saveDatabase().
addPriceEntryJs(st, data) ==
    saveDatabaseJs(
        [st EXCEPT !.price_history =
                        Append(DeleteRows(@, PriceConflictsJs(@, data.priceDate), 1),
                               [price |-> data.price, price_date |-> data.priceDate]),
                   !.changes = 1,
                   !.call = [fn |-> "addPriceEntry", key |-> <<data.priceDate, NULL>>,
                             value |-> TRUE, had |-> FALSE]])

CallAddSubscriptionJs(ch) ==
    /\ \E failedChanges \in {0, sqljs.changes} :
            sqljs' = addSubscriptionJs(sqljs, ch[1], ch[2], failedChanges)
    /\ UNCHANGED <<schema, subscriptions, price_history, task, lastCall, cmp,
                   guild_settings, db, ret>>

CallRemoveSubscriptionJs(ch) ==
    /\ sqljs' = removeSubscriptionJs(sqljs, ch[1], ch[2])
    /\ UNCHANGED <<schema, subscriptions, price_history, task, lastCall, cmp,
                   guild_settings, db, ret>>

CallAddPriceEntryJs(data) ==
    /\ data.priceDate = NULL => Cardinality(NullRows(sqljs.price_history)) < MaxNullRows
    /\ sqljs' = addPriceEntryJs(sqljs, data)
    /\ UNCHANGED <<schema, subscriptions, price_history, task, lastCall, cmp,
                   guild_settings, db, ret>>

NextSqljs ==
    \/ \E ch \in Channels : CallAddSubscriptionJs(ch)
    \/ \E ch \in Channels : CallRemoveSubscriptionJs(ch)
    \/ \E data \in PriceData : CallAddPriceEntryJs(data)

SpecSqljs == Init /\ [][NextSqljs]_vars

\* A closeDatabase() that closes without saveDatabase().
closeDatabaseJsWithoutSave(st) ==
    [st EXCEPT !.call = [fn |-> "closeDatabase", key |-> <<NULL, NULL>>,
                         value |-> TRUE, had |-> st.dirty]]

\* closeDatabase(): saveDatabase(); db.close(); db = null.  `had` records
\* whether memory held a change the file did not.
closeDatabaseJs(st) ==
    saveDatabaseJs([st EXCEPT !.call = [fn |-> "closeDatabase", key |-> <<NULL, NULL>>,
                                        value |-> TRUE, had |-> st.dirty]])

\* The process has exited: the SIGINT / SIGTERM handler ran closeDatabase()
\* and process.exit(0).
Exited == sqljs.call.fn = "closeDatabase"

\* SIGINT or SIGTERM: closeDatabase(); client.destroy(); process.exit(0).
ShutdownJs ==
    /\ ~Exited
    /\ sqljs' = closeDatabaseJs(sqljs)
    /\ UNCHANGED <<schema, subscriptions, price_history, task, lastCall, cmp,
                   guild_settings, db, ret>>

\* A call of a store function while the process runs.
RunningJs ==
    /\ ~Exited
    /\ NextSqljs

NextShutdown ==
    \/ RunningJs
    \/ ShutdownJs

SpecShutdown == Init /\ [][NextShutdown]_vars

(***************************************************************************)
(* The comparison on its own: every pair of a stored and a fetched price   *)
(***************************************************************************)

InitCompare ==
    /\ schema = "fresh"
    /\ subscriptions = EmptyBag
    /\ price_history = <<>>
    /\ task = [t \in Tasks |-> IdleTask]
    /\ guild_settings = EmptyBag
    /\ sqljs = NoSqljs
    /\ db = "open"
    /\ ret = NoRet
    /\ lastCall = NoCall
    /\ cmp \in {[pc |-> "fetched", price |-> p, previousData |-> prev, priceChanged |-> FALSE] :
                    p \in ComparePrices,
                    prev \in {NoRow} \cup {[fund_type |-> FUNDS[1], price |-> q,
                                             price_date |-> NULL] : q \in ComparePrices}}

Compare ==
    /\ cmp.pc = "fetched"
    /\ cmp' = [pc |-> "compared", price |-> cmp.price, previousData |-> cmp.previousData,
               priceChanged |-> priceChanged(cmp.price, cmp.previousData)]
    /\ UNCHANGED <<schema, subscriptions, price_history, task, lastCall,
                 guild_settings, sqljs, db, ret>>

NextCompare == Compare

SpecCompare == InitCompare /\ [][NextCompare]_vars

(***************************************************************************)
(* scraper.ts: reading the page                                            *)
(*                                                                         *)
(* The page text is a sequence of characters (strings of one character;    *)
(* "EUR" stands for the euro sign U+20AC).  The three regular expressions  *)
(* of fetchFundData are sequences of quantified character classes, matched *)
(* as the JavaScript engine matches them: leftmost start, every quantifier *)
(* greedy, backtracking to a shorter repetition when the rest fails.       *)
(***************************************************************************)
Euro == "EUR"
Digit == {"0", "1", "2", "3", "4", "5", "6", "7", "8", "9"}
Space == {" "}

\* The characters of the pages: pieces of text that a page is made of.
Fragments ==
    << <<Euro, " ", "9", "6", ",", "6", "3", "0", "7", " ",
         "(", "0", "9", "-", "0", "1", "-", "2", "0", "2", "6", ")">>,
       <<Euro, " ", "5", "0", ",", "2", "5">>,
       <<Euro, "9", "7", ".", "5", "(", "1", "0", "-", "0", "1", "-", "2", "0", "2", "6", ")">>,
       <<Euro, " ", "5">>,
       <<"2", "0", "2", "3", ":", " ", "1", "2", ",", "5", "%">>,
       <<"2", "0", "3", "1", ":", " ", "9", "%">>,
       <<"2", "0", "3", "0", " ", "-", "3", "%">>,
       <<"2", "0", "2", "0", ".", "4", ",", "%">>,
       <<"2", "0", "1", "9", " ", "7", "%">>,
       <<" ", "p", "e", "r", " ">> >>

MaxFragments == 3

RECURSIVE Concat(_)
Concat(frags) ==
    IF frags = <<>> THEN <<>> ELSE Fragments[Head(frags)] \o Concat(Tail(frags))

\* The pages: up to MaxFragments fragments, one after another.
Pages == UNION {[1..n -> 1..Len(Fragments)] : n \in 0..MaxFragments}

\* A quantified character class: x, x?, x*, x+, x{n}.  max = -1 is "no limit".
One(cls) == [cls |-> cls, min |-> 1, max |-> 1]
Opt(cls) == [cls |-> cls, min |-> 0, max |-> 1]
Star(cls) == [cls |-> cls, min |-> 0, max |-> -1]
Plus(cls) == [cls |-> cls, min |-> 1, max |-> -1]
Times(cls, n) == [cls |-> cls, min |-> n, max |-> n]

\* scraper.ts 57:  /EUR\s*(\d+[,.]?\d+)\s*\((\d{2})-(\d{2})-(\d{4})\)/
priceWithDatePattern ==
    <<One({Euro}), Star(Space), Plus(Digit), Opt({",", "."}), Plus(Digit), Star(Space),
      One({"("}), Times(Digit, 2), One({"-"}), Times(Digit, 2), One({"-"}),
      Times(Digit, 4), One({")"})>>

\* scraper.ts 68:  /EUR\s*(\d+[,.]?\d+)/
pricePattern ==
    <<One({Euro}), Star(Space), Plus(Digit), Opt({",", "."}), Plus(Digit)>>

\* scraper.ts 88:  /(\d{4})\s*[:.]?\s*(-?\d+[,.]?\d*)\s*%/g
perfPattern ==
    <<Times(Digit, 4), Star(Space), Opt({":", "."}), Star(Space), Opt({"-"}),
      Plus(Digit), Opt({",", "."}), Star(Digit), Star(Space), One({"%"})>>

\* The number of characters of cls in a row from position i.
RECURSIVE RunLength(_, _, _)
RunLength(text, i, cls) ==
    IF i <= Len(text) /\ text[i] \in cls THEN 1 + RunLength(text, i + 1, cls) ELSE 0

SetMax(S) == CHOOSE n \in S : \A m \in S : m <= n
SetMin(S) == CHOOSE n \in S : \A m \in S : n <= m

\* Matching the items k.. of a pattern at position i: the positions where
\* the items start, followed by the position after the match; <<>> when
\* there is no match.  An item takes as many characters as it can while
\* the rest of the pattern still matches.
RECURSIVE MatchFrom(_, _, _, _)
MatchFrom(re, k, text, i) ==
    IF k > Len(re) THEN <<i>>
    ELSE LET run == RunLength(text, i, re[k].cls)
             most == IF re[k].max < 0 \/ run < re[k].max THEN run ELSE re[k].max
             rest == [c \in re[k].min..most |-> MatchFrom(re, k + 1, text, i + c)]
             counts == {c \in DOMAIN rest : rest[c] # <<>>}
         IN  IF counts = {} THEN <<>> ELSE <<i>> \o rest[SetMax(counts)]

\* RegExp.prototype.exec from lastIndex `from` (String.prototype.match of
\* a pattern without the g flag is exec from the start): the leftmost match.
exec(re, text, from) ==
    LET starts == {i \in from..Len(text) : MatchFrom(re, 1, text, i) # <<>>}
    IN  IF starts = {} THEN <<>> ELSE MatchFrom(re, 1, text, SetMin(starts))

\* The characters of the items a..b of a match m.
Group(text, m, a, b) == SubSeq(text, m[a], m[b + 1] - 1)

\* A variant of replaceComma that leaves the comma.
keepComma(s) == s

\* String.prototype.replace(',', '.'): the first comma becomes a period.
replaceComma(s) ==
    LET commas == {i \in 1..Len(s) : s[i] = ","}
    IN  IF commas = {} THEN s
        ELSE [i \in 1..Len(s) |-> IF i = SetMin(commas) THEN "." ELSE s[i]]

\* parseInt of a sequence of digits.
RECURSIVE parseInt(_)
parseInt(s) ==
    IF s = <<>> THEN 0
    ELSE 10 * parseInt(SubSeq(s, 1, Len(s) - 1))
         + (CHOOSE n \in 0..9 : ToString(n) = s[Len(s)])

\* The number sign * mantissa / 10^exponent, written without trailing zeros
\* of the fraction: equal numbers are equal records.
RECURSIVE Decimal(_, _, _)
Decimal(sign, mantissa, exponent) ==
    IF exponent > 0 /\ mantissa % 10 = 0 THEN Decimal(sign, mantissa \div 10, exponent - 1)
    ELSE [sign |-> sign, mantissa |-> mantissa, exponent |-> exponent]

\* parseFloat of text that starts with a digit or "-": the longest prefix
\* -?digits(.digits)? is the number; the rest is ignored.
parseFloatOfText(s) ==
    LET neg == IF s # <<>> /\ s[1] = "-" THEN 1 ELSE 0
        whole == RunLength(s, neg + 1, Digit)
        dot == neg + whole + 1
        frac == IF dot <= Len(s) /\ s[dot] = "." THEN RunLength(s, dot + 1, Digit) ELSE 0
    IN  Decimal(IF neg = 1 THEN -1 ELSE 1,
                parseInt(SubSeq(s, neg + 1, neg + whole) \o SubSeq(s, dot + 1, dot + frac)),
                frac)

\* scraper.ts 44, 45: `price: null` and `priceDate: null`, kept apart from
\* every number (whose sign is 1 or -1) and every date (ten characters).
NullNumber == [sign |-> 0, mantissa |-> 0, exponent |-> 0]
NullText == <<>>

\* A variant of extractPrice without the fallback pattern.
extractPriceWithDateOnly(pageText) ==
    LET m == exec(priceWithDatePattern, pageText, 1)
    IN  IF m # <<>>
        THEN [price |-> parseFloatOfText(replaceComma(Group(pageText, m, 3, 5))),
              priceDate |-> Group(pageText, m, 12, 12) \o <<"-">>
                            \o Group(pageText, m, 10, 10) \o <<"-">>
                            \o Group(pageText, m, 8, 8)]
        ELSE [price |-> NullNumber, priceDate |-> NullText]

\* scraper.ts 56-72: the price with its date, or else the price alone.
extractPrice(pageText) ==
    LET m == exec(priceWithDatePattern, pageText, 1)
        p == exec(pricePattern, pageText, 1)
    IN  IF m # <<>>
        THEN [price |-> parseFloatOfText(replaceComma(Group(pageText, m, 3, 5))),
              priceDate |-> Group(pageText, m, 12, 12) \o <<"-">>
                            \o Group(pageText, m, 10, 10) \o <<"-">>
                            \o Group(pageText, m, 8, 8)]
        ELSE IF p # <<>>
        THEN [price |-> parseFloatOfText(replaceComma(Group(pageText, p, 3, 5))),
              priceDate |-> NullText]
        ELSE [price |-> NullNumber, priceDate |-> NullText]

MinYear == 2020
MaxYear == 2030

\* A variant of extractPerformances that keeps every year.
RECURSIVE extractPerformancesOfAnyYear(_, _, _)
extractPerformancesOfAnyYear(pageText, lastIndex, performances) ==
    LET m == exec(perfPattern, pageText, lastIndex)
        year == Group(pageText, m, 1, 1)
        perf == parseFloatOfText(replaceComma(Group(pageText, m, 5, 8)))
    IN  IF m = <<>> THEN performances
        ELSE extractPerformancesOfAnyYear(pageText, m[Len(m)],
                 [y \in DOMAIN performances \cup {year} |->
                      IF y = year THEN perf ELSE performances[y]])

\* scraper.ts 86-97: the loop over the matches of perfPattern from lastIndex
\* on; `performances` maps the year, as text, to the number.
RECURSIVE extractPerformances(_, _, _)
extractPerformances(pageText, lastIndex, performances) ==
    LET m == exec(perfPattern, pageText, lastIndex)
        year == Group(pageText, m, 1, 1)
        perf == parseFloatOfText(replaceComma(Group(pageText, m, 5, 8)))
    IN  IF m = <<>> THEN performances
        ELSE extractPerformances(pageText, m[Len(m)],
                 IF parseInt(year) >= MinYear /\ parseInt(year) <= MaxYear
                 THEN [y \in DOMAIN performances \cup {year} |->
                          IF y = year THEN perf ELSE performances[y]]
                 ELSE performances)

\* scraper.ts 54-99: what fetchFundData makes of the text of the page.
extractFundData(pageText) ==
    [price |-> extractPrice(pageText).price,
     priceDate |-> extractPrice(pageText).priceDate,
     performances |-> extractPerformances(pageText, 1, <<>>)]

\* A page is about to be read: fetchFundData has been called and the
\* response has arrived.
InitScraper ==
    /\ schema = "fresh"
    /\ subscriptions = EmptyBag
    /\ price_history = <<>>
    /\ task = [t \in Tasks |-> IdleTask]
    /\ guild_settings = EmptyBag
    /\ sqljs = NoSqljs
    /\ db = "open"
    /\ cmp = NoCompare
    /\ ret = NoRet
    /\ lastCall \in {[fn |-> "fetchFundData", frags |-> frags, pageText |-> Concat(frags)] :
                        frags \in Pages}

\* scraper.ts 39-99: fetchFundData reads the text of the page and returns.
FetchFundData ==
    /\ ret = NoRet
    /\ ret' = [fn |-> "fetchFundData", data |-> extractFundData(lastCall.pageText)]
    /\ UNCHANGED <<schema, subscriptions, price_history, task, lastCall, cmp,
                 guild_settings, sqljs, db>>

NextScraper == FetchFundData

SpecScraper == InitScraper /\ [][NextScraper]_vars

(***************************************************************************)
(* index.ts: two polls of one fund in flight                               *)
(*                                                                         *)
(* The cron callback and the meesman-status handler have both called       *)
(* fetchFundData for the same fund and neither call has resolved; both     *)
(* resolve with the same price.  `cmp` is not program state: the fund, the *)
(* price, and how many of the two polls have classified it as Changed.     *)
(***************************************************************************)
InitOverlap ==
    /\ schema \in Schemas
    /\ subscriptions \in {EmptyBag} \cup
           {SetToBag({[guild_id |-> ch[1], channel_id |-> ch[2], fund_type |-> f]}) :
                ch \in Channels, f \in FundType}
    /\ price_history \in {<<>>} \cup
           {<<[fund_type |-> f, price |-> q, price_date |-> d]>> :
                f \in FundType, q \in TickPrices, d \in Dates}
    /\ \E i \in 1..Len(FUNDS), p \in TickPrices :
           /\ task = [t \in Tasks |-> [IdleTask EXCEPT !.pc = "fetch", !.fund = i]]
           /\ cmp = [pc |-> "overlap", fund |-> i, price |-> p, changed |-> 0]
    /\ lastCall = NoCall
    /\ guild_settings = EmptyBag
    /\ sqljs = NoSqljs
    /\ db = "open"
    /\ ret = NoRet

\* `await fetchFundData` of the poll cycle resolves or rejects; for the fund
\* that both handlers poll it resolves with the common price.
OverlapPollFetched(out, rows) ==
    /\ cmp.pc = "overlap"
    /\ task["cron"].pc = "fetch"
    /\ out.fundType = FUNDS[task["cron"].fund]
    /\ task["cron"].fund = cmp.fund => out.kind = "data" /\ out.price = cmp.price
    /\ WithinNullRows(out, MaxPolledNullRows)
    /\ LET r == checkForUpdatesForFund(task["cron"], out, rows)
       IN /\ price_history' = r.history
          /\ task' = [task EXCEPT !["cron"] = r.task]
          /\ cmp' = IF task["cron"].fund = cmp.fund /\ r.task.result = "Changed"
                    THEN [cmp EXCEPT !.changed = @ + 1] ELSE cmp
    /\ UNCHANGED <<schema, subscriptions, lastCall, guild_settings, sqljs, db, ret>>

\* `await fetchFundData` of meesman-status resolves with the common price.
OverlapStatusFetched(out) ==
    /\ cmp.pc = "overlap"
    /\ task["status"].pc = "fetch"
    /\ out.fundType = FUNDS[task["status"].fund]
    /\ out.kind = "data" /\ out.price = cmp.price
    /\ WithinNullRows(out, MaxPolledNullRows)
    /\ LET r == statusHandler(task["status"], out)
       IN /\ price_history' = r.history
          /\ task' = [task EXCEPT !["status"] = r.task]
          /\ cmp' = IF r.task.result = "Changed"
                    THEN [cmp EXCEPT !.changed = @ + 1] ELSE cmp
    /\ UNCHANGED <<schema, subscriptions, lastCall, guild_settings, sqljs, db, ret>>

NextOverlap ==
    \/ \E f \in FundType : \E out \in FetchOutcomes(f) :
            \E rows \in getSubscriptions(subscriptions, f) :
                OverlapPollFetched(out, rows)
    \/ \E f \in FundType : \E out \in FetchOutcomes(f) :
            OverlapStatusFetched(out)
    \/ \E outcome \in DeliveryOutcomes : Deliver(outcome)

SpecOverlap == InitOverlap /\ [][NextOverlap]_vars

(***************************************************************************)
(* index.ts: poll cycles that keep fetching one price                      *)
(*                                                                         *)
(* One channel is subscribed to one fund, every delivery to it fails, and  *)
(* every fetch for that fund gives the same price.  `cmp` is not program   *)
(* state: the fund, the price, and the number of delivery attempts on the  *)
(* channel.                                                                *)
(***************************************************************************)
MaxAttempts == 2

InitRetry ==
    /\ schema \in Schemas
    /\ price_history \in {<<>>} \cup
           {<<[fund_type |-> f, price |-> q, price_date |-> d]>> :
                f \in FundType, q \in TickPrices, d \in Dates}
    /\ \E i \in 1..Len(FUNDS), p \in TickPrices :
           /\ subscriptions = SetToBag({[guild_id |-> "g1", channel_id |-> "c1",
                                         fund_type |-> FUNDS[i]]})
           /\ cmp = [pc |-> "retry", fund |-> i, price |-> p, attempts |-> 0]
    /\ task = [t \in Tasks |-> IdleTask]
    /\ lastCall = NoCall
    /\ guild_settings = EmptyBag
    /\ sqljs = NoSqljs
    /\ db = "open"
    /\ ret = NoRet

\* `await fetchFundData` of the poll cycle resolves or rejects; for the
\* subscribed fund it resolves with the one price.
RetryPollFetched(out, rows) ==
    /\ cmp.pc = "retry"
    /\ task["cron"].pc = "fetch"
    /\ out.fundType = FUNDS[task["cron"].fund]
    /\ task["cron"].fund = cmp.fund => out.kind = "data" /\ out.price = cmp.price
    /\ WithinNullRows(out, MaxPolledNullRows)
    /\ LET r == checkForUpdatesForFund(task["cron"], out, rows)
       IN /\ price_history' = r.history
          /\ task' = [task EXCEPT !["cron"] = r.task]
    /\ UNCHANGED <<schema, subscriptions, lastCall, cmp, guild_settings, sqljs, db, ret>>

\* The delivery to the subscriber fails.
RetryDeliver(outcome) ==
    /\ cmp.pc = "retry"
    /\ cmp.attempts < MaxAttempts
    /\ outcome # "sent"
    /\ task["cron"].pc = "notify"
    /\ task' = [task EXCEPT !["cron"] = notifyNext(task["cron"], outcome)]
    /\ subscriptions' = subscriptionsAfterAttempt(subscriptions,
                             task["cron"].subs[task["cron"].idx + 1], outcome)
    /\ cmp' = [cmp EXCEPT !.attempts = @ + 1]
    /\ UNCHANGED <<schema, price_history, lastCall, guild_settings, sqljs, db, ret>>

NextRetry ==
    \/ CronFires
    \/ \E f \in FundType : \E out \in FetchOutcomes(f) :
            \E rows \in getSubscriptions(subscriptions, f) :
                RetryPollFetched(out, rows)
    \/ \E outcome \in DeliveryOutcomes : RetryDeliver(outcome)

SpecRetry == InitRetry /\ [][NextRetry]_vars

(***************************************************************************)
(* Properties                                                              *)
(***************************************************************************)

\* The task t took a step out of `await fetchFundData`.
PollStep(t) == task[t].pc = "fetch" /\ task'[t] # task[t]

\* The subscription rows stored for fund f.
RegisteredFor(f) == {r \in BagToSet(subscriptions) : r.fund_type = f}

\* The number of price_history rows of fund f.
CountOfFund(rows, f) == Cardinality({i \in 1..Len(rows) : rows[i].fund_type = f})

\* The price_history rows of fund f, in id order.
HistoryOfFund(rows, f) == LET OfFund(r) == r.fund_type = f IN SelectSeq(rows, OfFund)

Abs(n) == IF n < 0 THEN -n ELSE n

\* C1: whenever a changed price is persisted, by the poll cycle or by
\* meesman-status, a fan-out to every subscription registered for the
\* fund starts: the handler that persisted is in its delivery loop over
\* exactly those subscriptions (or none is registered).
C1_PersistStartsFanOut ==
    [][price_history' # price_history =>
        LET f == price_history'[Len(price_history')].fund_type
        IN \/ RegisteredFor(f) = {}
           \/ \E t \in Tasks :
                /\ task'[t].pc = "notify"
                /\ task'[t].idx = 0
                /\ {task'[t].subs[i] : i \in 1..Len(task'[t].subs)} = RegisteredFor(f)]_vars

\* C2: the comparison gives Changed exactly when nothing is stored or the
\* fetched and the stored price differ by at least 0.0001 (10 units of
\* 10^-5).
C2_ChangedIffDifferenceAtLeastThreshold ==
    cmp.pc = "compared" =>
        (cmp.priceChanged <=>
            (cmp.previousData = NoRow \/ Abs(cmp.price - cmp.previousData.price) >= 10))

\* C3: a fan-out starts at the first subscriber of the resolved list; every
\* step of it is the attempt on the next subscriber of the list, whatever
\* the outcome of the attempt before; it goes on while a subscriber is
\* left, and after the last one the cycle goes on with the next fund.
C3_FanOutSurvivesFailures ==
    [][\A t \in Tasks :
        /\ (task[t].pc # "notify" /\ task'[t].pc = "notify")
                => task'[t].idx = 0 /\ task'[t].subs # <<>>
        /\ (task[t].pc = "notify" /\ task'[t] # task[t]) =>
            LET n == task[t].idx + 1
            IN /\ n <= Len(task[t].subs)
               /\ task'[t].attempt.channelId = task[t].subs[n].channel_id
               /\ task'[t].attempt.outcome \in DeliveryOutcomes
               /\ IF n < Len(task[t].subs)
                  THEN /\ task'[t].pc = "notify"
                       /\ task'[t].subs = task[t].subs
                       /\ task'[t].idx = n
                  ELSE IF task[t].fund < Len(FUNDS)
                       THEN task'[t].pc = "fetch" /\ task'[t].fund = task[t].fund + 1
                       ELSE task'[t].pc = "idle"]_vars

\* C3 witness: a delivery of a fan-out has thrown and the fan-out is still
\* under way, with a subscriber left.
C3_Witness ==
    /\ task["cron"].pc = "notify"
    /\ task["cron"].attempt.outcome \in {"fetchThrows", "sendThrows"}
    /\ task["cron"].idx < Len(task["cron"].subs)

\* C4: when the poll of a fund of the cycle ends in a failure and a fund
\* is left, the cycle goes on: the fetch of the next fund is under way.
C4_CycleSurvivesFailure ==
    [][(PollStep("cron") /\ task'["cron"].result = "FetchFailed"
            /\ task["cron"].fund < Len(FUNDS))
        => (task'["cron"].pc = "fetch" /\ task'["cron"].fund = task["cron"].fund + 1)]_vars

\* C4 witness: the second fund is being fetched after the first one failed.
C4_Witness ==
    /\ task["cron"].pc = "fetch"
    /\ task["cron"].fund = 2
    /\ task["cron"].result = "FetchFailed"

\* C5: a poll that ends in FetchFailed leaves price_history and
\* subscriptions as they were and starts no delivery.
C5_FetchFailedChangesNothing ==
    [][\A t \in Tasks :
        (PollStep(t) /\ task'[t].result = "FetchFailed") =>
            /\ price_history' = price_history
            /\ subscriptions' = subscriptions
            /\ task'[t].pc # "notify"
            /\ task'[t].attempt = NoAttempt]_vars

\* C5 witness: a poll of the cycle has failed for a fund that has a stored
\* price and a subscriber.
C5_Witness ==
    /\ task["cron"].result = "FetchFailed"
    /\ task["cron"].pc = "fetch"
    /\ task["cron"].fund = 2
    /\ RegisteredFor(FUNDS[1]) # {}
    /\ CountOfFund(price_history, FUNDS[1]) > 0

\* C6: a poll classified Unchanged leaves price_history as it was and
\* starts no delivery; a poll that persists or starts a delivery is
\* classified Changed.
C6_OnlyChangedPersistsAndNotifies ==
    [][\A t \in Tasks :
        PollStep(t) =>
            /\ task'[t].result = "Unchanged" =>
                    /\ price_history' = price_history
                    /\ task'[t].pc # "notify"
                    /\ task'[t].attempt = NoAttempt
            /\ (price_history' # price_history \/ task'[t].pc = "notify")
                    => task'[t].result = "Changed"]_vars

\* C6 witness: a poll of the cycle was Unchanged for a fund with a subscriber.
C6_Witness ==
    /\ task["cron"].result = "Unchanged"
    /\ task["cron"].pc = "fetch"
    /\ task["cron"].fund = 2
    /\ RegisteredFor(FUNDS[1]) # {}

\* C7: price_history never holds two rows of the same fund and the same
\* non-null price_date, and right after addPriceEntry with a non-null
\* date exactly one row has that fund and date, and it holds the price
\* passed.
C7_OneRowPerFundAndDate ==
    /\ \A i, j \in 1..Len(price_history) :
            (/\ i # j
             /\ price_history[i].fund_type = price_history[j].fund_type
             /\ price_history[i].price_date = price_history[j].price_date)
                => price_history[i].price_date = NULL
    /\ (lastCall.fn = "addPriceEntry" /\ lastCall.key[2] # NULL) =>
            \E i \in 1..Len(price_history) :
                /\ RowsOfKey(price_history, lastCall.key[1], lastCall.key[2]) = {i}
                /\ price_history[i].price = lastCall.price

\* C7 witness: addPriceEntry was called for a fund and date that were
\* stored already, and the table holds another row too.
C7_Witness ==
    /\ lastCall.fn = "addPriceEntry"
    /\ lastCall.key[2] # NULL
    /\ lastCall.had
    /\ Len(price_history) > 1

\* C8: no call makes the number of stored observations of a fund smaller,
\* and addPriceEntry for one fund leaves the rows of every other fund as
\* they were.
C8_ObservationsAreNeverRemoved ==
    [][\A f \in FundType :
        /\ CountOfFund(price_history', f) >= CountOfFund(price_history, f)
        /\ (lastCall'.tick # lastCall.tick /\ lastCall'.fn = "addPriceEntry"
                /\ lastCall'.key[1] # f)
            => HistoryOfFund(price_history', f) = HistoryOfFund(price_history, f)]_vars

\* C9: addSubscription for a channel that is subscribed to another fund,
\* and not to this one, returns true, and afterwards both rows are stored.
C9_SecondFundCanBeSubscribed ==
    [][\A ch \in Channels, f \in FundType, g \in FundType :
        (/\ lastCall'.tick # lastCall.tick
         /\ lastCall'.fn = "addSubscription"
         /\ lastCall'.key = <<ch[1], ch[2], f>>
         /\ g # f
         /\ HasSubscription(ch[1], ch[2], g)
         /\ ~HasSubscription(ch[1], ch[2], f))
        => /\ lastCall'.value = TRUE
           /\ BagIn([guild_id |-> ch[1], channel_id |-> ch[2], fund_type |-> f], subscriptions')
           /\ BagIn([guild_id |-> ch[1], channel_id |-> ch[2], fund_type |-> g], subscriptions')]_vars

\* C10: addSubscription returns true when the triple is not stored and
\* false when it is (so two calls in a row give true, then false), after
\* either the triple is stored once, and no triple is ever stored twice.
C10_AddSubscriptionTrueThenFalse ==
    /\ \A r \in BagToSet(subscriptions) : CopiesIn(r, subscriptions) = 1
    /\ lastCall.fn = "addSubscription" =>
            /\ lastCall.value = ~lastCall.had
            /\ HasSubscription(lastCall.key[1], lastCall.key[2], lastCall.key[3])

C12_RemoveOfMissingChangesNothing ==
    [][(/\ lastCall'.tick # lastCall.tick
        /\ lastCall'.fn = "removeSubscription"
        /\ ~HasSubscription(lastCall'.key[1], lastCall'.key[2], lastCall'.key[3]))
       => (lastCall'.value = FALSE /\ subscriptions' = subscriptions)]_vars

\* C12 witness: removeSubscription was called for a triple that was not
\* stored while the same channel is subscribed to the other fund.
C12_Witness ==
    /\ lastCall.fn = "removeSubscription"
    /\ ~lastCall.had
    /\ \E f \in FundType \ {lastCall.key[3]} :
            HasSubscription(lastCall.key[1], lastCall.key[2], f)

\* C13: addPriceEntry with a null priceDate overwrites nothing: the table
\* afterwards is the table before with the new row added at its end.
C13_NullDateRowsAccumulate ==
    [][(/\ lastCall'.tick # lastCall.tick
        /\ lastCall'.fn = "addPriceEntry"
        /\ lastCall'.key[2] = NULL)
       => price_history' = Append(price_history,
                                  [fund_type |-> lastCall'.key[1],
                                   price |-> lastCall'.price,
                                   price_date |-> NULL])]_vars

\* C13 witness: two observations of one fund without a date are stored,
\* the later one just persisted.
C13_Witness ==
    /\ lastCall.fn = "addPriceEntry"
    /\ lastCall.key[2] = NULL
    /\ Cardinality(RowsOfKey(price_history, lastCall.key[1], NULL)) >= 2

\* C14: addPriceEntry for a fund and date that are stored replaces the
\* row in place: the history of the fund keeps its length and its order,
\* and only the row of that date changes, to the new price.
C14_OverwriteKeepsPosition ==
    [][(/\ lastCall'.tick # lastCall.tick
        /\ lastCall'.fn = "addPriceEntry"
        /\ lastCall'.key[2] # NULL
        /\ lastCall'.had)
       => LET f == lastCall'.key[1]
              before == HistoryOfFund(price_history, f)
              after == HistoryOfFund(price_history', f)
          IN /\ Len(after) = Len(before)
             /\ \A i \in 1..Len(before) :
                    after[i] = IF before[i].price_date = lastCall'.key[2]
                               THEN [before[i] EXCEPT !.price = lastCall'.price]
                               ELSE before[i]]_vars

\* C15: getLatestPrice(f) is the observation persisted last for fund f, or
\* null when none was: null at the start; after addPriceEntry for f it is
\* the row just persisted; addPriceEntry for another fund leaves it as it
\* was; and it is never a row of another fund.
C15_LatestIsLastPersisted ==
    [][(lastCall'.tick # lastCall.tick /\ lastCall'.fn = "addPriceEntry") =>
        \A f \in FundType :
            LET latest == getLatestPrice(price_history', f)
            IN /\ latest = NoRow \/ latest.fund_type = f
               /\ IF f = lastCall'.key[1]
                  THEN latest = [fund_type |-> f, price |-> lastCall'.price,
                                 price_date |-> lastCall'.key[2]]
                  ELSE latest = getLatestPrice(price_history, f)]_vars

\* The position in rows of the n-th latest row of fund f.
NthLatestOfFund(rows, f, n) ==
    CHOOSE i \in 1..Len(rows) :
        /\ rows[i].fund_type = f
        /\ Cardinality({j \in (i + 1)..Len(rows) : rows[j].fund_type = f}) = n - 1

\* C16: getPriceHistory(f, limit) returns min(limit, number of rows of f)
\* rows, all of fund f, the latest inserted first: its n-th row is the
\* n-th latest inserted row of f.
C16_HistoryIsLatestFirst ==
    [][(ret'.tick # ret.tick /\ ret'.fn = "getPriceHistory") =>
        LET f == ret'.args[1]
            limit == ret'.args[2]
            stored == CountOfFund(price_history, f)
            got == ret'.rows
        IN /\ Len(got) <= limit
           /\ Len(got) = IF stored < limit THEN stored ELSE limit
           /\ \A n \in 1..Len(got) :
                /\ got[n].fund_type = f
                /\ got[n] = price_history[NthLatestOfFund(price_history, f, n)]]_vars

\* C16 witness: getPriceHistory returned two different rows, fewer than are
\* stored for the fund, while the other fund has a row too.
C16_Witness ==
    /\ ret.fn = "getPriceHistory"
    /\ Len(ret.rows) = 2
    /\ ret.rows[1] # ret.rows[2]
    /\ CountOfFund(price_history, ret.args[1]) > 2
    /\ \E f \in FundType \ {ret.args[1]} : CountOfFund(price_history, f) > 0

\* C17: getPriceStats(f) with no row of fund f stored returns count 0 and
\* no other field, whatever is stored for the other fund.
C17_StatsOfNothing ==
    [][(/\ ret'.tick # ret.tick
        /\ ret'.fn = "getPriceStats"
        /\ CountOfFund(price_history, ret'.args[1]) = 0)
       => (DOMAIN ret'.stats = {"count"} /\ ret'.stats.count = 0)]_vars

\* C17 witness: getPriceStats gave count 0 for a fund without rows while
\* the other fund has rows.
C17_Witness ==
    /\ ret.fn = "getPriceStats"
    /\ ret.stats.count = 0
    /\ CountOfFund(price_history, ret.args[1]) = 0
    /\ \E f \in FundType \ {ret.args[1]} : CountOfFund(price_history, f) > 1

\* C18: getPriceStats(f) with a row of fund f stored returns the number of
\* rows of f as count, their smallest and largest price as lowest and
\* highest, the last inserted row of f as latest and the first inserted
\* row of f that is still stored as oldest.
C18_StatsOfRows ==
    [][(/\ ret'.tick # ret.tick
        /\ ret'.fn = "getPriceStats"
        /\ CountOfFund(price_history, ret'.args[1]) > 0)
       => LET f == ret'.args[1]
              at == {i \in 1..Len(price_history) : price_history[i].fund_type = f}
              first == CHOOSE i \in at : \A j \in at : i <= j
              last == CHOOSE i \in at : \A j \in at : i >= j
              got == ret'.stats
          IN /\ got.count = Cardinality(at)
             /\ \E i \in at : price_history[i].price = got.lowest
             /\ \A i \in at : price_history[i].price >= got.lowest
             /\ \E i \in at : price_history[i].price = got.highest
             /\ \A i \in at : price_history[i].price <= got.highest
             /\ got.latest = price_history[last]
             /\ got.oldest.price = price_history[first].price
             /\ got.oldest.price_date = price_history[first].price_date]_vars

\* C18 witness: getPriceStats was called for a fund with rows of different
\* prices whose first and last rows differ, the other fund having rows too.
C18_Witness ==
    /\ ret.fn = "getPriceStats"
    /\ ret.stats.count >= 2
    /\ ret.stats.lowest < ret.stats.highest
    /\ ret.stats.latest.price_date # ret.stats.oldest.price_date
    /\ \E f \in FundType \ {ret.args[1]} : CountOfFund(price_history, f) > 0

\* The guild_settings rows of guild g.
SettingsOf(rows, g) == {r \in BagToSet(rows) : r.guild_id = g}

\* C19: guild_settings holds at most one row per guild; setPingRole(g, role)
\* leaves exactly the row (g, role) for g, or none when role is null, and
\* the rows of the other guilds as they were; getPingRole(g) returns the
\* role of the row of g, or null without a row.  So getPingRole returns
\* what the latest setPingRole of the guild set.
C19_PingRoleIsLatestSet ==
    [][/\ \A g \in Guilds :
            /\ Cardinality(SettingsOf(guild_settings', g)) <= 1
            /\ \A r \in SettingsOf(guild_settings', g) : CopiesIn(r, guild_settings') = 1
       /\ (ret'.tick # ret.tick /\ ret'.fn = "setPingRole") =>
            LET g == ret'.args[1]
                roleId == ret'.args[2]
            IN /\ SettingsOf(guild_settings', g) =
                    IF roleId = NULL THEN {}
                    ELSE {[guild_id |-> g, ping_role_id |-> roleId]}
               /\ \A h \in Guilds \ {g} :
                    SettingsOf(guild_settings', h) = SettingsOf(guild_settings, h)
       /\ (ret'.tick # ret.tick /\ ret'.fn = "getPingRole") =>
            /\ guild_settings' = guild_settings
            /\ IF SettingsOf(guild_settings, ret'.args[1]) = {}
               THEN ret'.role = NULL
               ELSE \E r \in SettingsOf(guild_settings, ret'.args[1]) :
                        ret'.role = r.ping_role_id]_vars

\* C19 witness: a role has just been set for a guild while the other guild
\* has a row with a different role.
C19_Witness ==
    /\ ret.fn = "setPingRole"
    /\ ret.args[2] # NULL
    /\ \A g \in Guilds : Cardinality(SettingsOf(guild_settings, g)) = 1
    /\ \E g \in Guilds \ {ret.args[1]} :
            [guild_id |-> g, ping_role_id |-> ret.args[2]] \notin BagToSet(guild_settings)

\* C20: a store function called while the store is not initialized (before
\* initDatabase or after closeDatabase) throws, returns nothing and leaves
\* the tables as they were.
C20_UninitializedStoreThrows ==
    [][(ret'.tick # ret.tick /\ ~Initialized) =>
        /\ ret'.threw
        /\ ret'.rows = <<>>
        /\ subscriptions' = subscriptions
        /\ price_history' = price_history]_vars

\* C21: when the SIGINT / SIGTERM handler has run, the database file holds
\* the subscriptions and the price history that were in memory: every
\* change made before the shutdown is in the file.
C21_ShutdownFlushes ==
    Exited =>
        /\ sqljs.file.subscriptions = sqljs.subscriptions
        /\ sqljs.file.price_history = sqljs.price_history

\* C21 witness: the process exited while memory held a deletion that no
\* saveDatabase() had written, and a price is stored.
C21_Witness ==
    /\ Exited
    /\ sqljs.call.had
    /\ sqljs.price_history # <<>>

\* The position of the first character after i that is no space, and of the
\* last character before i that is no space (0 when there is none).
NextNonSpace(text, i) ==
    LET S == {k \in (i + 1)..Len(text) : text[k] \notin Space}
    IN  IF S = {} THEN 0 ELSE SetMin(S)
PrevNonSpace(text, i) ==
    LET S == {k \in 1..(i - 1) : text[k] \notin Space}
    IN  IF S = {} THEN 0 ELSE SetMax(S)

\* Whether the characters a..b of the text are a decimal: digits with at most
\* one comma or period, which stands between two digits.
IsDecimal(text, a, b) ==
    /\ 0 < a /\ a < b /\ b <= Len(text)
    /\ text[a] \in Digit /\ text[b] \in Digit
    /\ \A k \in a..b : text[k] \in Digit \cup {",", "."}
    /\ Cardinality({k \in a..b : text[k] \notin Digit}) <= 1

\* The number that the decimal a..b of the text denotes.
DecimalValue(text, a, b) ==
    LET digits == SelectSeq(SubSeq(text, a, b), LAMBDA c : c \in Digit)
        seps == {k \in a..b : text[k] \notin Digit}
    IN  Decimal(1, parseInt(digits), IF seps = {} THEN 0 ELSE b - SetMin(seps))

\* Whether the characters c..c+11 of the text are "(DD-MM-YYYY)".
IsDateInParentheses(text, c) ==
    /\ c + 11 <= Len(text)
    /\ text[c] = "(" /\ text[c + 3] = "-" /\ text[c + 6] = "-" /\ text[c + 11] = ")"
    /\ \A k \in {1, 2, 4, 5, 7, 8, 9, 10} : text[c + k] \in Digit

\* The euro signs of the text that are followed by a decimal and, right
\* after it, a date in parentheses: [at, price, priceDate], with the date
\* written YYYY-MM-DD.
DatedPrices(text) ==
    {[at |-> i,
      price |-> DecimalValue(text, NextNonSpace(text, i), PrevNonSpace(text, c)),
      priceDate |-> SubSeq(text, c + 7, c + 10) \o <<"-">> \o SubSeq(text, c + 4, c + 5)
                    \o <<"-">> \o SubSeq(text, c + 1, c + 2)] :
        <<i, c>> \in {<<i, c>> \in (1..Len(text)) \X (1..Len(text)) :
                        /\ text[i] = Euro
                        /\ i < c
                        /\ IsDateInParentheses(text, c)
                        /\ IsDecimal(text, NextNonSpace(text, i), PrevNonSpace(text, c))}}

\* C22: when the page text contains a euro sign, a decimal and right after it
\* a date in parentheses, DD-MM-YYYY, fetchFundData returns the decimal, its
\* comma read as a period, as `price` and the date as YYYY-MM-DD as
\* `priceDate` (of the first such place of the text);
\* "EUR 96,6307 (09-01-2026)" gives 96.6307 and "2026-01-09".
C22_PriceWithDate ==
    ret.fn = "fetchFundData" =>
        /\ \A d \in DatedPrices(lastCall.pageText) :
               (\A e \in DatedPrices(lastCall.pageText) : d.at <= e.at) =>
                   /\ ret.data.price = d.price
                   /\ ret.data.priceDate = d.priceDate
        /\ lastCall.frags = <<1>> =>
               /\ ret.data.price = [sign |-> 1, mantissa |-> 966307, exponent |-> 4]
               /\ ret.data.priceDate = <<"2", "0", "2", "6", "-", "0", "1", "-", "0", "9">>

\* fetchFundData has read a page with a price and its date behind other text.
C22_Witness ==
    /\ ret.fn = "fetchFundData"
    /\ lastCall.frags = <<5, 1>>
    /\ DatedPrices(lastCall.pageText) # {}
    /\ ret.data.price = [sign |-> 1, mantissa |-> 966307, exponent |-> 4]
    /\ ret.data.priceDate = <<"2", "0", "2", "6", "-", "0", "1", "-", "0", "9">>
\* The euro signs of the text that are followed by a decimal: [at, price],
\* the decimal being the longest one that starts there.
Prices(text) ==
    {[at |-> i, price |-> DecimalValue(text, NextNonSpace(text, i), b)] :
        <<i, b>> \in {<<i, b>> \in (1..Len(text)) \X (1..Len(text)) :
                        /\ text[i] = Euro
                        /\ IsDecimal(text, NextNonSpace(text, i), b)
                        /\ \A k \in (b + 1)..Len(text) :
                               ~IsDecimal(text, NextNonSpace(text, i), k)}}

\* C23: when the page text contains a euro sign and a decimal, but no decimal
\* with a date in parentheses after it, fetchFundData returns that decimal as
\* `price` (of the first such place of the text) and null as `priceDate`;
\* "EUR 50,25" gives 50.25 and null.
C23_PriceWithoutDate ==
    ret.fn = "fetchFundData" /\ DatedPrices(lastCall.pageText) = {} =>
        /\ \A d \in Prices(lastCall.pageText) :
               (\A e \in Prices(lastCall.pageText) : d.at <= e.at) =>
                   /\ ret.data.price = d.price
                   /\ ret.data.priceDate = NullText
        /\ lastCall.frags = <<2>> =>
               /\ ret.data.price = [sign |-> 1, mantissa |-> 5025, exponent |-> 2]
               /\ ret.data.priceDate = NullText

\* fetchFundData has read a page with a price and no date, behind other text.
C23_Witness ==
    /\ ret.fn = "fetchFundData"
    /\ lastCall.frags = <<9, 2>>
    /\ DatedPrices(lastCall.pageText) = {}
    /\ Prices(lastCall.pageText) # {}
    /\ ret.data.price = [sign |-> 1, mantissa |-> 5025, exponent |-> 2]
    /\ ret.data.priceDate = NullText
\* The fragments that are a performance line: the year, as text and as a
\* number, and the percentage.
PerformanceLines ==
    [k \in 5..9 |->
        CASE k = 5 -> [year |-> <<"2", "0", "2", "3">>, number |-> 2023,
                       perf |-> [sign |-> 1, mantissa |-> 125, exponent |-> 1]]
          [] k = 6 -> [year |-> <<"2", "0", "3", "1">>, number |-> 2031,
                       perf |-> [sign |-> 1, mantissa |-> 9, exponent |-> 0]]
          [] k = 7 -> [year |-> <<"2", "0", "3", "0">>, number |-> 2030,
                       perf |-> [sign |-> -1, mantissa |-> 3, exponent |-> 0]]
          [] k = 8 -> [year |-> <<"2", "0", "2", "0">>, number |-> 2020,
                       perf |-> [sign |-> 1, mantissa |-> 4, exponent |-> 0]]
          [] k = 9 -> [year |-> <<"2", "0", "1", "9">>, number |-> 2019,
                       perf |-> [sign |-> 1, mantissa |-> 7, exponent |-> 0]]]

\* The positions of a page that hold a performance line of a year from 2020
\* to 2030.
KeptLines(frags) ==
    {i \in 1..Len(frags) :
        /\ frags[i] \in DOMAIN PerformanceLines
        /\ PerformanceLines[frags[i]].number >= 2020
        /\ PerformanceLines[frags[i]].number <= 2030}

\* C24: `performances` has an entry exactly for the years from 2020 to 2030
\* that have a performance line on the page, with the number of the (last)
\* line of that year; a line of a year outside 2020..2030 gives no entry.
\* "2023: 12,5%" is kept as 12.5, "2031: 9%" is left out.
C24_PerformancesOfYearsInRange ==
    ret.fn = "fetchFundData" =>
        /\ DOMAIN ret.data.performances =
               {PerformanceLines[lastCall.frags[i]].year : i \in KeptLines(lastCall.frags)}
        /\ \A i \in KeptLines(lastCall.frags) :
               (\A j \in KeptLines(lastCall.frags) :
                    PerformanceLines[lastCall.frags[j]].year
                        = PerformanceLines[lastCall.frags[i]].year => j <= i)
               => ret.data.performances[PerformanceLines[lastCall.frags[i]].year]
                      = PerformanceLines[lastCall.frags[i]].perf

\* fetchFundData has read a page with the lines of 2023, 2031 and 2019.
C24_Witness ==
    /\ ret.fn = "fetchFundData"
    /\ lastCall.frags = <<5, 6, 9>>
    /\ DOMAIN ret.data.performances = {<<"2", "0", "2", "3">>}
    /\ ret.data.performances[<<"2", "0", "2", "3">>]
           = [sign |-> 1, mantissa |-> 125, exponent |-> 1]
\* C25: within one poll cycle the funds are polled one after another: the
\* fetch of the next fund starts only in the step that ends the poll of the
\* previous fund, which is the return after its fetch (nothing to notify) or
\* the last turn of its fan-out; while a fan-out has turns left the cycle
\* stays at its fund.
C25_FundsPolledOneAfterAnother ==
    [][/\ task.cron.fund # 0 /\ task'.cron.fund # task.cron.fund =>
              /\ \/ task.cron.pc = "fetch"
                 \/ (task.cron.pc = "notify" /\ task.cron.idx + 1 = Len(task.cron.subs))
              /\ task'.cron.fund \in {0, task.cron.fund + 1}
       /\ task.cron.pc = "notify" /\ task.cron.idx + 1 < Len(task.cron.subs) =>
              /\ task'.cron.fund = task.cron.fund
              /\ task'.cron.pc = "notify"
              /\ task'.cron.subs = task.cron.subs]_vars

\* The fetch of the second fund is pending after a fan-out of the first fund
\* over two subscriptions.
C25_Witness ==
    /\ task.cron.fund = 2
    /\ task.cron.pc = "fetch"
    /\ task.cron.result = "Changed"
    /\ task.cron.attempt.channelId = "c2"
    /\ Cardinality({ch \in Channels : HasSubscription(ch[1], ch[2], FUNDS[1])}) = 2
\* C26: a notification about a fund is attempted only on channels subscribed
\* to that fund: the recipients of a fan-out are rows of the subscription
\* table of the polled fund, so a channel that has a subscription to the other
\* fund only is not among them, and every attempt is on the channel of one of
\* these recipients.
C26_OnlySubscribersOfTheFund ==
    [][/\ task.cron.pc = "fetch" /\ task'.cron.pc = "notify" =>
              \A i \in 1..Len(task'.cron.subs) :
                  /\ task'.cron.subs[i].fund_type = FUNDS[task.cron.fund]
                  /\ HasSubscription(task'.cron.subs[i].guild_id,
                                     task'.cron.subs[i].channel_id, FUNDS[task.cron.fund])
       /\ task.cron.pc = "notify" /\ task'.cron # task.cron =>
              /\ task'.cron.attempt.channelId = task.cron.subs[task.cron.idx + 1].channel_id
              /\ task.cron.subs[task.cron.idx + 1].fund_type = FUNDS[task.cron.fund]]_vars

\* The fan-out of the first fund is under way with channel c1 as its one
\* recipient, while channel c2 is subscribed to the second fund only.
C26_Witness ==
    /\ task.cron.fund = 1
    /\ task.cron.pc = "notify"
    /\ Len(task.cron.subs) = 1
    /\ task.cron.subs[1].channel_id = "c1"
    /\ HasSubscription("g1", "c2", FUNDS[2])
    /\ ~HasSubscription("g1", "c2", FUNDS[1])
\* C27: the poll cycle and meesman-status never create or remove a
\* subscription: every step of a poll (the cycle starting, a fetch ending,
\* a delivery ending, whatever its outcome) leaves the subscriptions table
\* as it was.
C27_PollsKeepSubscriptions ==
    [][task' # task => subscriptions' = subscriptions]_vars

\* A delivery to channel c1 has failed in a fan-out that is still under way,
\* and the subscription of c1 to the polled fund is stored.
C27_Witness ==
    /\ task.cron.pc = "notify"
    /\ task.cron.attempt = [channelId |-> "c1", outcome |-> "fetchThrows"]
    /\ HasSubscription("g1", "c1", FUNDS[task.cron.fund])
\* C28: of two polls of one fund that are in flight together and fetch the
\* same price, at most one classifies the price as Changed and persists it.
C28_AtMostOneChanged ==
    cmp.pc = "overlap" => cmp.changed <= 1
\* C29: a failed delivery is never retried: the price is persisted before
\* the fan-out and stays persisted when a delivery fails, so the later polls
\* that fetch the same price are Unchanged and the subscriber whose delivery
\* failed gets no second attempt for that price.
C29_FailedDeliveryNotRetried ==
    cmp.pc = "retry" => cmp.attempts <= 1
\* C30: the recipients of a fan-out are the subscriptions of the fund as
\* they are stored in the step that persists the price; while the fan-out is
\* under way its recipients stay the same, whatever is followed or unfollowed
\* in between (a follow or unfollow touches no poll), and every turn of the
\* loop attempts the next of these recipients, subscribed by now or not.
C30_RecipientsReadOnce ==
    [][/\ task.cron.pc = "fetch" /\ task'.cron.pc = "notify" =>
              /\ price_history' = addPriceEntry(price_history, [fundType |-> FUNDS[task.cron.fund],
                     price |-> price_history'[Len(price_history')].price,
                     priceDate |-> price_history'[Len(price_history')].price_date])
              /\ \A ch \in Channels :
                     HasSubscription(ch[1], ch[2], FUNDS[task.cron.fund])
                     <=> \E i \in 1..Len(task'.cron.subs) :
                             /\ task'.cron.subs[i].guild_id = ch[1]
                             /\ task'.cron.subs[i].channel_id = ch[2]
              /\ Len(task'.cron.subs)
                     = Cardinality({ch \in Channels :
                           HasSubscription(ch[1], ch[2], FUNDS[task.cron.fund])})
       /\ task.cron.pc = "notify" /\ task'.cron.pc = "notify" =>
              task'.cron.subs = task.cron.subs
       /\ subscriptions' # subscriptions => task' = task
       /\ task.cron.pc = "notify" /\ task'.cron # task.cron =>
              /\ task'.cron.attempt.channelId = task.cron.subs[task.cron.idx + 1].channel_id
              /\ \/ task'.cron.pc = "notify" /\ task'.cron.idx = task.cron.idx + 1
                 \/ task'.cron.pc # "notify" /\ task.cron.idx + 1 = Len(task.cron.subs)]_vars

\* A fan-out is under way whose one recipient, channel c2, has unfollowed
\* the fund and is about to be attempted, while channel c1, which has
\* followed the fund since, is no recipient.
C30_Witness ==
    /\ task.cron.pc = "notify"
    /\ task.cron.idx = 0
    /\ Len(task.cron.subs) = 1
    /\ task.cron.subs[1].channel_id = "c2"
    /\ ~HasSubscription("g1", "c2", FUNDS[task.cron.fund])
    /\ HasSubscription("g1", "c1", FUNDS[task.cron.fund])

====
